---- MODULE Spec2Model ----
(***************************************************************************)
(* A model of mtg_deck_compiler.py: the Compiler object built from a deck  *)
(* file, its download_img loop over the three image sources (Scryfall,     *)
(* MagicCards, Gatherer), make_montage and merge_pdf, together with the    *)
(* files they read and write and the operator's answers to exists_abort.   *)
(***************************************************************************)
EXTENDS Integers, Sequences, FiniteSets, TLC

\* ------------------------------------------------------------------ bounds
\* Lines of a deck file.
MaxLines == 2
\* Largest count on one deck line, in the full run (Spec).
MaxCount == 1
\* Largest count on one deck line, in the runs of make_montage (SpecPages).
MaxPageCount == 6

\* Images per page: the literal 9 of make_montage.
PageSize == 9

\* Card names a deck line may hold.
Names == {"Forest", "Negate"}

\* ------------------------------------------------------------- deck file
\* A line of the deck file after splitting: a comment or blank line, a
\* "<count> <name>" line, or an "SB: <count> <name>" line.
CommentLine == [kind |-> "comment", count |-> 0, name |-> "#"]

DeckLines(maxc) ==
    {CommentLine} \cup [kind : {"card", "sb"}, count : 1..maxc, name : Names]

DeckFiles(maxc) ==
    UNION {[1..n -> DeckLines(maxc)] : n \in 0..MaxLines}

EmptyDeck == [dict |-> [n \in {} |-> 0], order |-> <<>>, size |-> 0]

\* One iteration of load_dec's loop. A Python dict keeps its keys in insertion
\* order: dict is the mapping, order the keys as download_img iterates them.
LoadLine(acc, l) ==
    IF l.kind = "comment"
    THEN acc
    ELSE [dict  |-> IF l.name \in DOMAIN acc.dict
                    THEN [acc.dict EXCEPT ![l.name] = @ + l.count]
                    ELSE (l.name :> l.count) @@ acc.dict,
          order |-> IF l.name \in DOMAIN acc.dict
                    THEN acc.order
                    ELSE Append(acc.order, l.name),
          size  |-> acc.size + l.count]

RECURSIVE LoadFrom(_, _, _)
LoadFrom(lines, k, acc) ==
    IF k > Len(lines) THEN acc ELSE LoadFrom(lines, k + 1, LoadLine(acc, lines[k]))

load_dec(lines) ==
    LoadFrom(lines, 1, EmptyDeck)

\* ------------------------------------------------------------ the sources
\* What the remote services would answer for one card:
\*   r1   Scryfall: an image ("ok"), a zero-length body ("empty"), a non-2xx
\*        answer with an error body ("non2xx"), or requests.get raising;
\*   r2   MagicCards: a page with a matching img tag ("url"), a page without
\*        one ("notfound", the LookupError), or requests.get raising;
\*   r3   Gatherer: an answer, from whose URL an image URL is made ("url"),
\*        or requests.get raising;
\*   body the body behind the image URL: bytes ("img"), nothing ("empty"), or
\*        requests.get raising.
Worlds ==
    [card : Names,
     r1   : {"ok", "empty", "non2xx", "raise"},
     r2   : {"url", "notfound", "raise"},
     r3   : {"url", "raise"},
     body : {"img", "empty", "raise"}]

NoWorld == [card |-> "", r1 |-> "none", r2 |-> "none", r3 |-> "none", body |-> "none"]

Answers == {"y", "n"}

\* What a path holds: nothing, a directory, a file that was there before the
\* run ("old"), or a file this run wrote, named by what was written.
IsFile(f) == f \notin {"absent", "dir"}

Exists(f) == f # "absent"

\* The requests that go over the network.
NetEvents == {"scryfall", "magiccards", "gatherer", "fetch"}

\* ------------------------------------------------------------ operations
\* exists_abort without its exit(0): the answer is read and ignored.
exists_abort_no_exit(exists, ans) ==
    [asked |-> exists, abort |-> FALSE]

\* exists_abort(p), for one path: the prompt is put when the path exists, and
\* any answer but "y" ends the run with exit(0).
exists_abort(exists, ans) ==
    [asked |-> exists, abort |-> exists /\ ans # "y"]

NoPrompt == [asked |-> FALSE, abort |-> FALSE]

\* check_cache looking at a path that is never there (the card's name without
\* the cache directory).
check_cache_wrong_path(f) ==
    FALSE

\* Compiler.check_cache: os.path.isfile of the card's path.
check_cache(f) ==
    IsFile(f)

\* What Scryfall.save_img writes for an answer of the service: response.content,
\* whatever the status of the response.
ResponseContent(r1) ==
    CASE r1 = "ok"     -> "img"
      [] r1 = "empty"  -> "empty"
      [] r1 = "non2xx" -> "errbody"

\* Scryfall.save_img(cardname, filename): requests.get, then open(filename, "wb")
\* and f.write(response.content). raised: an exception left the function
\* (requests.get raised, or open raised on a directory).
Scryfall_save_img(f, r1) ==
    IF r1 = "raise" \/ f = "dir"
    THEN [raised |-> TRUE, fs |-> f, ev |-> <<"scryfall">>]
    ELSE [raised |-> FALSE, fs |-> ResponseContent(r1), ev |-> <<"scryfall", "write">>]

\* The inner try without its except LookupError: a page without the image
\* ends download_img instead of going on to Gatherer.
get_img_url_no_fallback(r2, r3) ==
    [raised |-> r2 # "url", ev |-> <<"magiccards">>]

\* The inner try of download_img: MagicCards.get_img_url, and on LookupError
\* (only) Gatherer.get_img_url. raised: an exception left the try statement.
get_img_url(r2, r3) ==
    CASE r2 = "url"      -> [raised |-> FALSE, ev |-> <<"magiccards">>]
      [] r2 = "raise"    -> [raised |-> TRUE, ev |-> <<"magiccards">>]
      [] r2 = "notfound" -> [raised |-> r3 = "raise", ev |-> <<"magiccards", "gatherer">>]

\* save_img(url, filename): requests.get; a zero-length body is reported and
\* nothing is written; otherwise open(filename, "wb") and write.
save_img(f, body) ==
    CASE body = "raise" -> [raised |-> TRUE, fs |-> f, ev |-> <<"fetch">>]
      [] body = "empty" -> [raised |-> FALSE, fs |-> f, ev |-> <<"fetch">>]
      [] body = "img"   -> IF f = "dir"
                           THEN [raised |-> TRUE, fs |-> f, ev |-> <<"fetch">>]
                           ELSE [raised |-> FALSE, fs |-> "img", ev |-> <<"fetch", "write">>]

\* The prompt of download_img before save_img: only with overwrite off.
SavePrompt(ow, f, ans) ==
    IF ow THEN NoPrompt ELSE exists_abort(Exists(f), ans)

Asked(p, ans) == IF p.asked THEN <<ans>> ELSE <<>>

\* The else branch of download_img's loop body for one card whose path holds f:
\* exists_abort(path), Scryfall.save_img, on any Exception the two URL sources
\* and save_img, and last ImageMagic.resize(path).
\*   end   "next" (the loop goes on), "aborted" (exit(0) in exists_abort) or
\*         "crashed" (an exception left download_img);
\*   fs    what the path holds afterwards;
\*   ev    the calls made, in order;
\*   asks  the operator's answers to the prompts put.
download_one(f, w, a1, a2, ow) ==
    LET p1 == exists_abort(Exists(f), a1)
        s  == Scryfall_save_img(f, w.r1)
        u  == get_img_url(w.r2, w.r3)
        p2 == SavePrompt(ow, s.fs, a2)
        g  == save_img(s.fs, w.body)
    IN  IF p1.abort
        THEN [end |-> "aborted", fs |-> f, ev |-> <<"miss">>, asks |-> Asked(p1, a1)]
        ELSE IF ~s.raised
        THEN [end |-> "next", fs |-> s.fs, ev |-> <<"miss">> \o s.ev \o <<"resize">>,
              asks |-> Asked(p1, a1)]
        ELSE IF u.raised
        THEN [end |-> "crashed", fs |-> s.fs, ev |-> <<"miss">> \o s.ev \o u.ev,
              asks |-> Asked(p1, a1)]
        ELSE IF p2.abort
        THEN [end |-> "aborted", fs |-> s.fs, ev |-> <<"miss">> \o s.ev \o u.ev,
              asks |-> Asked(p1, a1) \o Asked(p2, a2)]
        ELSE IF g.raised
        THEN [end |-> "crashed", fs |-> g.fs, ev |-> <<"miss">> \o s.ev \o u.ev \o g.ev,
              asks |-> Asked(p1, a1) \o Asked(p2, a2)]
        ELSE [end |-> "next", fs |-> g.fs,
              ev |-> <<"miss">> \o s.ev \o u.ev \o g.ev \o <<"resize">>,
              asks |-> Asked(p1, a1) \o Asked(p2, a2)]

\* num_pages = self._size // 9 + 1: one page too many for a full last page.
num_pages_off_by_one(n) ==
    n \div PageSize + 1

\* make_montage: num_pages = (self._size - 1) // 9 + 1 (floor division).
num_pages(n) ==
    (n - 1) \div PageSize + 1

\* make_montage's list of images: each card's path, count times, in dict order.
RECURSIVE Repeat(_, _)
Repeat(x, n) ==
    IF n <= 0 THEN <<>> ELSE <<x>> \o Repeat(x, n - 1)

RECURSIVE ImagesFrom(_, _, _)
ImagesFrom(d, ord, k) ==
    IF k > Len(ord) THEN <<>>
    ELSE Repeat(ord[k], d[ord[k]]) \o ImagesFrom(d, ord, k + 1)

ImageList(d, ord) ==
    ImagesFrom(d, ord, 1)

Min(a, b) == IF a < b THEN a ELSE b

\* The Python slice images[p * 9 : (p + 1) * 9].
PageSlice(imgs, p) ==
    LET lo == Min(p * PageSize, Len(imgs))
        hi == Min((p + 1) * PageSize, Len(imgs))
    IN  [k \in 1..(hi - lo) |-> imgs[lo + k]]

\* ------------------------------------------------------------------ state
VARIABLES
    dict,       \* Compiler._dict: card name -> count
    order,      \* the keys of _dict in insertion order
    size,       \* Compiler._size
    overwrite,  \* Compiler._overwrite
    images,     \* Compiler._images: the pages written, by index
    pages,      \* the image list handed to each montage3x3 call
    cache,      \* what each card's path in the cache directory holds
    cache0,     \* the cache directory as the run found it
    out,        \* what each page's output path holds, once the run has looked at
                \* it or written it ("unseen" before)
    pdf,        \* the same for the merged document's path
    pc,         \* where main is: download, montage, merge, done, aborted, crashed
    i,          \* the loop index of download_img (from 1) or make_montage (from 0)
    trace,      \* per card, the calls download_img made for it
    prompts,    \* the prompts put by exists_abort, with the answers
    world       \* the services' answers for the card download_img handled last

vars == <<dict, order, size, overwrite, images, pages, cache, cache0, out, pdf,
          pc, i, trace, prompts, world>>

CachePath(n) == [kind |-> "cache", name |-> n, idx |-> 0]
PagePath(p)  == [kind |-> "page", name |-> "", idx |-> p]
PdfPath      == [kind |-> "pdf", name |-> "", idx |-> 0]

\* What a path holds now.
Content(d) ==
    CASE d.kind = "cache" -> cache[d.name]
      [] d.kind = "page"  -> out[d.idx]
      [] d.kind = "pdf"   -> pdf

\* The state after Compiler(deck, ...) was built from a deck file.
Constructed(maxc) ==
    /\ \E lines \in DeckFiles(maxc) :
          LET d == load_dec(lines)
          IN  /\ dict = d.dict
              /\ order = d.order
              /\ size = d.size
    /\ overwrite \in BOOLEAN
    /\ images = <<>>
    /\ pages = <<>>
    /\ out = [p \in 0..(num_pages(size) - 1) |-> "unseen"]
    /\ pdf = "unseen"
    /\ trace = [n \in DOMAIN dict |-> <<>>]
    /\ prompts = <<>>
    /\ world = NoWorld

\* main has built the Compiler and calls download_img; each card's path in
\* the cache directory holds nothing, a file or a directory.
Init ==
    /\ Constructed(MaxCount)
    /\ cache \in [DOMAIN dict -> {"absent", "old", "dir"}]
    /\ cache0 = cache
    /\ pc = "download"
    /\ i = 1

\* ---------------------------------------------------------------- actions
\* download_img, one iteration: the card is in the cache.
CacheHit ==
    /\ pc = "download"
    /\ i <= Len(order)
    /\ check_cache(cache[order[i]])
    /\ trace' = [trace EXCEPT ![order[i]] = <<"hit">>]
    /\ i' = i + 1
    /\ world' = NoWorld
    /\ UNCHANGED <<dict, order, size, overwrite, images, pages, cache, cache0, out, pdf,
                   pc, prompts>>

\* download_img, one iteration: the card is not in the cache.
DownloadCard ==
    /\ pc = "download"
    /\ i <= Len(order)
    /\ ~check_cache(cache[order[i]])
    /\ \E w \in Worlds, a1 \in Answers, a2 \in Answers :
          LET c == order[i]
              r == download_one(cache[c], w, a1, a2, overwrite)
          IN  /\ w.card = c
              /\ cache' = [cache EXCEPT ![c] = r.fs]
              /\ trace' = [trace EXCEPT ![c] = r.ev]
              /\ prompts' = prompts \o [k \in 1..Len(r.asks) |->
                                           [dest |-> CachePath(c), ans |-> r.asks[k]]]
              /\ pc' = IF r.end = "next" THEN "download" ELSE r.end
              /\ i' = IF r.end = "next" THEN i + 1 ELSE i
              /\ world' = w
    /\ UNCHANGED <<dict, order, size, overwrite, images, pages, cache0, out, pdf>>

\* download_img returns; main calls make_montage.
DownloadEnd ==
    /\ pc = "download"
    /\ i > Len(order)
    /\ pc' = "montage"
    /\ i' = 0
    /\ world' = NoWorld
    /\ UNCHANGED <<dict, order, size, overwrite, images, pages, cache, cache0, out, pdf,
                   trace, prompts>>

\* What os.path.exists finds at an output path: what the run left there, or,
\* at a path it has not touched, a file of an earlier run or nothing.
Found(f, there) ==
    IF f = "unseen" THEN (IF there THEN "old" ELSE "absent") ELSE f

\* What an output path holds after montage3x3 or pdf.output wrote it: "new" at
\* a free path, "replaced" where a file was.
Written(f) ==
    IF Exists(f) THEN "replaced" ELSE "new"

\* The guarded prompt of make_montage and merge_pdf:
\* if not self._overwrite: exists_abort(output).
OutputPrompt(ow, f, ans) ==
    IF ow THEN NoPrompt ELSE exists_abort(Exists(f), ans)

\* make_montage, one iteration of its loop over the pages.
MontagePage ==
    /\ pc = "montage"
    /\ i < num_pages(size)
    /\ \E ans \in Answers, there \in BOOLEAN :
          LET f == Found(out[i], there)
              p == OutputPrompt(overwrite, f, ans)
          IN  /\ prompts' = prompts \o
                     (IF p.asked THEN <<[dest |-> PagePath(i), ans |-> ans]>> ELSE <<>>)
              /\ IF p.abort
                 THEN /\ pc' = "aborted"
                      /\ out' = [out EXCEPT ![i] = f]
                      /\ UNCHANGED <<pages, images, i>>
                 ELSE /\ out' = [out EXCEPT ![i] = Written(f)]
                      /\ pages' = Append(pages, PageSlice(ImageList(dict, order), i))
                      /\ images' = Append(images, i)
                      /\ i' = i + 1
                      /\ pc' = pc
    /\ UNCHANGED <<dict, order, size, overwrite, cache, cache0, pdf, trace, world>>

\* make_montage returns.
MontageEnd ==
    /\ pc = "montage"
    /\ i >= num_pages(size)
    /\ pc' = "merge"
    /\ UNCHANGED <<dict, order, size, overwrite, images, pages, cache, cache0, out, pdf,
                   i, trace, prompts, world>>

\* main with --merge given: merge_pdf writes the document from the pages.
MergePdf ==
    /\ pc = "merge"
    /\ \E ans \in Answers, there \in BOOLEAN :
          LET f == Found(pdf, there)
              p == OutputPrompt(overwrite, f, ans)
          IN  /\ prompts' = prompts \o
                     (IF p.asked THEN <<[dest |-> PdfPath, ans |-> ans]>> ELSE <<>>)
              /\ IF p.abort
                 THEN /\ pc' = "aborted"
                      /\ pdf' = f
                 ELSE /\ pdf' = Written(f)
                      /\ pc' = "done"
    /\ UNCHANGED <<dict, order, size, overwrite, images, pages, cache, cache0, out,
                   i, trace, world>>

\* main without --merge: the run ends after make_montage.
NoMerge ==
    /\ pc = "merge"
    /\ pc' = "done"
    /\ UNCHANGED <<dict, order, size, overwrite, images, pages, cache, cache0, out, pdf,
                   i, trace, prompts, world>>

Next ==
    \/ CacheHit
    \/ DownloadCard
    \/ DownloadEnd
    \/ MontagePage
    \/ MontageEnd
    \/ MergePdf
    \/ NoMerge

Spec == Init /\ [][Next]_vars

\* make_montage called on a Compiler just built, over larger decks, every
\* card's image in the cache.
InitPages ==
    /\ Constructed(MaxPageCount)
    /\ cache = [n \in DOMAIN dict |-> "old"]
    /\ cache0 = cache
    /\ pc = "montage"
    /\ i = 0

NextPages ==
    \/ MontagePage
    \/ MontageEnd

SpecPages == InitPages /\ [][NextPages]_vars

\* ------------------------------------------------------------ properties
Has(t, e) == \E k \in DOMAIN t : t[k] = e

\* e is in t, and no f of t comes before the first e.
Before(t, e, f) ==
    \E k \in DOMAIN t : t[k] = e /\ \A j \in 1..k : t[j] # f

\* download_img has just handled card c, with the services answering as world.
Handled(c) == world.card = c

\* C1: a failure while acquiring one card never aborts the batch: once
\* download_img is over, other than by the operator's refusal to overwrite,
\* every card of the deck was processed (cache-checked).
C1_FailureNeverAbortsBatch ==
    pc \notin {"download", "aborted"} => \A c \in DOMAIN dict : trace[c] # <<>>

\* All three sources fail for a card: Scryfall answers non-2xx or raises,
\* MagicCards has no matching image or raises, Gatherer raises or the URL it
\* gives has no body.
AllResolversFail(w) ==
    /\ w.r1 \in {"non2xx", "raise"}
    /\ w.r2 \in {"notfound", "raise"}
    /\ w.r3 = "raise" \/ w.body \in {"empty", "raise"}

\* C2: an uncached card for which all three resolvers fail has no cache file
\* after download_img handled it.
C2_ExhaustedLeavesNoFile ==
    \A c \in DOMAIN dict :
        Handled(c) /\ AllResolversFail(world) => ~IsFile(cache[c])

\* Resolver 1 fails, resolver 2 signals NotFound, resolver 3 gives a URL with a
\* non-empty body.
FallbackChain(w) ==
    /\ w.r1 \in {"non2xx", "raise"}
    /\ w.r2 = "notfound"
    /\ w.r3 = "url"
    /\ w.body = "img"

\* Gatherer is contacted only after MagicCards, MagicCards only after Scryfall.
InPriorityOrder(t) ==
    /\ Has(t, "gatherer") => Before(t, "magiccards", "gatherer")
    /\ Has(t, "magiccards") => Before(t, "scryfall", "magiccards")

\* C3 as stated: for an uncached card (check_cache false) on the fallback
\* chain, a cache file exists after download_img handled it, and the
\* resolvers were contacted in priority order. A run the operator ended at a
\* prompt is not counted against the claim.
C3_FallbackChainCachesFile ==
    \A c \in DOMAIN dict :
        Handled(c) /\ FallbackChain(world) /\ pc # "aborted" =>
            IsFile(cache[c]) /\ InPriorityOrder(trace[c])

\* C3 amended: the same for a card with nothing at all at its cache path; and
\* when resolver 1 failed by raising, the three resolvers were contacted in
\* order, the file holds the body fetched from resolver 3's URL, and the loop
\* goes on.
C3_FallbackChainCachesFileAtFreePath ==
    \A c \in DOMAIN dict :
        Handled(c) /\ FallbackChain(world) /\ cache0[c] = "absent" =>
            /\ IsFile(cache[c])
            /\ InPriorityOrder(trace[c])
            /\ world.r1 = "raise" =>
                  /\ trace[c] = <<"miss", "scryfall", "magiccards", "gatherer",
                                  "fetch", "write", "resize">>
                  /\ cache[c] = "img"
                  /\ pc = "download"

C3_Witness ==
    \E c \in DOMAIN dict :
        /\ Handled(c) /\ FallbackChain(world) /\ world.r1 = "raise"
        /\ Has(trace[c], "gatherer")
        /\ cache0[c] = "absent" /\ cache[c] = "img"
        /\ pc = "download"

\* C4: when every card of the deck has a cache file, download_img makes no
\* network request, writes no cache file and runs no normalization.
C4_AllCachedNoRequests ==
    (\A c \in DOMAIN dict : IsFile(cache0[c])) =>
        /\ cache = cache0
        /\ \A c \in DOMAIN dict : \A k \in DOMAIN trace[c] :
               trace[c][k] \notin NetEvents \cup {"write", "resize"}

C4_Witness ==
    /\ pc = "montage"
    /\ Len(order) = 2
    /\ \A c \in DOMAIN dict : IsFile(cache0[c]) /\ trace[c] = <<"hit">>

\* C5: with overwrite disabled, a prompt not answered "y" ends the run there
\* (no later prompt, pc aborted) with the destination as it was; and no
\* existing destination was written without a prompt answered "y".
C5_DeclinedOverwriteAborts ==
    ~overwrite =>
        /\ \A k \in DOMAIN prompts :
              prompts[k].ans # "y" =>
                  /\ pc = "aborted"
                  /\ k = Len(prompts)
                  /\ Content(prompts[k].dest) \in {"old", "dir"}
        /\ \A c \in DOMAIN dict :
              Exists(cache0[c]) /\ cache[c] # cache0[c] =>
                  \E k \in DOMAIN prompts :
                      prompts[k] = [dest |-> CachePath(c), ans |-> "y"]
        /\ \A p \in DOMAIN out :
              out[p] = "replaced" =>
                  \E k \in DOMAIN prompts :
                      prompts[k] = [dest |-> PagePath(p), ans |-> "y"]
        /\ pdf = "replaced" =>
              \E k \in DOMAIN prompts : prompts[k] = [dest |-> PdfPath, ans |-> "y"]

C5_Witness ==
    /\ ~overwrite
    /\ pc = "aborted"
    /\ prompts # <<>>
    /\ prompts[Len(prompts)] = [dest |-> PdfPath, ans |-> "n"]
    /\ pdf = "old"
    /\ \E p \in DOMAIN out : out[p] = "replaced"

\* ceil(n / d), by its definition.
CeilDiv(n, d) ==
    CHOOSE k \in 0..n : k * d >= n /\ (k - 1) * d < n

\* C6: for a deck of N cards make_montage, when it returns, has made
\* ceil(N / 9) pages, each of 9 images but the last, which has N mod 9 (9 when
\* N mod 9 = 0).
C6_PageCountAndSizes ==
    pc = "merge" =>
        /\ Len(pages) = CeilDiv(size, PageSize)
        /\ Len(images) = Len(pages)
        /\ \A k \in 1..(Len(pages) - 1) : Len(pages[k]) = PageSize
        /\ Len(pages) > 0 =>
              Len(pages[Len(pages)]) =
                  (IF size % PageSize = 0 THEN PageSize ELSE size % PageSize)

C6_Witness ==
    /\ pc = "merge"
    /\ size > PageSize
    /\ size % PageSize # 0
    /\ Len(pages) = 2
    /\ Len(pages[1]) = PageSize

\* C7: with overwrite enabled no confirmation prompt is ever put.
C7_OverwriteNeverPrompts ==
    overwrite => prompts = <<>>

\* C8: a non-2xx answer of resolver 1 is a resolver failure: resolver 2 is
\* tried and resolver 1's body is not stored as the cache file.
C8_Non2xxFallsThrough ==
    \A c \in DOMAIN dict :
        Handled(c) /\ world.r1 = "non2xx" /\ Has(trace[c], "scryfall") =>
            Has(trace[c], "magiccards") /\ cache[c] # "errbody"

\* C9: no zero-length cache file is ever written.
C9_NoEmptyCacheFile ==
    \A c \in DOMAIN dict : cache[c] # "empty"

\* C10: resize is invoked for a card only after the card's bytes were
\* written to its cache path in the same run.
C10_ResizeOnlyAfterWrite ==
    \A c \in DOMAIN dict :
        Has(trace[c], "resize") => Before(trace[c], "write", "resize")

====
